---------------------------- MODULE Spec2Model ----------------------------
(***************************************************************************)
(* Model of github.com/Dancapistan/htmlutil: the named character reference *)
(* scanner of package checker, the ambiguous ampersand detector built on   *)
(* it, and the escapers of package escaper.                                *)
(*                                                                         *)
(* A text is a sequence of byte values (Go strings are indexed by byte).   *)
(* Go indexes from 0, TLA+ sequences from 1: At and Slice keep the         *)
(* source's 0-based indices.                                               *)
(*   38 = '&'   59 = ';'   34 = '"'   35 = '#'   51 = '3'   52 = '4'       *)
(*   97 = 'a'  109 = 'm'  112 = 'p'                                        *)
(***************************************************************************)
EXTENDS Integers, Sequences, FiniteSets, TLC

\* ------------------------------------------------------------- bounds ----

\* Most pieces a text is built from.
MaxPieces == 3

\* Most Next calls recorded between two Resets.
MaxCalls == 3

\* Most Resets of one scanner.
MaxResets == 1

\* Longest chain of calls in which a call's result is the next argument.
MaxDepth == 2

\* Most pieces a text given to the CSS identifier checks is built from.
MaxCssPieces == 3

\* What the texts are built from: the bytes '&', ';', '"' and 'a', the
\* reference "&ap;", whose name is in the reference name table, and the
\* reference "&a;", whose name is not.
Pieces == { <<38>>, <<59>>, <<34>>, <<97>>, <<38, 97, 112, 59>>, <<38, 97, 59>> }

RECURSIVE TextsUpTo(_)
TextsUpTo(n) ==
  IF n = 0 THEN {<<>>}
  ELSE LET shorter == TextsUpTo(n - 1)
       IN  shorter \cup {t \o p : t \in shorter, p \in Pieces}

Texts == TextsUpTo(MaxPieces)

\* Most pieces the text two scanners share is built from.
MaxSharedPieces == 2

\* Most pieces a text given to the id and attribute value checks is built
\* from.
MaxIdPieces == 3

\* What the texts given to the id and attribute value checks are built from:
\* the letters 'a' and 'Z', the digit '2', ':', '_', '-', '.', the space and
\* the line feed, '"', the apostrophe, '<', '=', '&', ';', the references
\* "&a;" and "&ap;", and U+00A0 in UTF-8.
IdPieces ==
  { <<97>>, <<90>>, <<50>>, <<58>>, <<95>>, <<45>>, <<46>>, <<32>>, <<10>>,
    <<34>>, <<39>>, <<60>>, <<61>>, <<38>>, <<59>>, <<38, 97, 59>>,
    <<38, 97, 112, 59>>, <<194, 160>> }

RECURSIVE IdTextsUpTo(_)
IdTextsUpTo(n) ==
  IF n = 0 THEN {<<>>}
  ELSE LET shorter == IdTextsUpTo(n - 1)
       IN  shorter \cup {t \o p : t \in shorter, p \in IdPieces}

IdTexts == IdTextsUpTo(MaxIdPieces)

\* What the texts given to the CSS identifier checks are built from: the
\* digits '2' and '3', the hex letters 'a' and 'F', the other letters 'g' and
\* 'G', '-', '_', the backslash, the whitespace characters space, tab, LF, CR
\* and FF, U+00A0 in UTF-8, '&', a byte that is not the start of a UTF-8
\* encoding, runs of six and of seven hex digits, the hex escape of '&'
\* (backslash 2 6) and the pair CR LF.
CssPieces ==
  { <<50>>, <<51>>, <<97>>, <<70>>, <<103>>, <<71>>, <<45>>, <<95>>, <<92>>,
    <<32>>, <<9>>, <<10>>, <<13>>, <<12>>, <<194, 160>>, <<38>>, <<160>>,
    <<50, 97, 70, 51, 97, 70>>, <<50, 97, 70, 51, 97, 70, 50>>,
    <<92, 50, 54>>, <<13, 10>> }

RECURSIVE CssTextsUpTo(_)
CssTextsUpTo(n) ==
  IF n = 0 THEN {<<>>}
  ELSE LET shorter == CssTextsUpTo(n - 1)
       IN  shorter \cup {t \o p : t \in shorter, p \in CssPieces}

CssTexts == CssTextsUpTo(MaxCssPieces)

\* ---------------------------------------------------- program constants --

UnicodeAmpersand == 38

UnicodeSemicolon == 59

UnicodeQuoteMark == 34

UnicodeApostrophe == 39

\* "\u0020\u0009\u000A\u000C\u000D"
SpaceCharacters == <<32, 9, 10, 12, 13>>

\* "\u0022\u0027\u003C\u003D\u003E\u0060"
InvalidAttributeValueUnquotedCharacters == <<34, 39, 60, 61, 62, 96>>

unicodeDoubleQuote == 34

unicodeAmpersand == 38

unicodeSemicolon == 59

\* htmlQuot misspelt "&34;", without the '#'.
htmlQuotMisspelt == <<38, 51, 52, 59>>

htmlQuot == <<38, 35, 51, 52, 59>>

\* htmlAmp misspelt "&Amp;", which names no character reference.
htmlAmpMisspelt == <<38, 65, 109, 112, 59>>

htmlAmp == <<38, 97, 109, 112, 59>>

\* The reference name table restricted to the names that can be written with
\* the letters a, m and p: amp, ap, mp, pm, map.
characterReferenceNames ==
  { <<97, 109, 112>>, <<97, 112>>, <<109, 112>>, <<112, 109>>, <<109, 97, 112>> }

IsCharacterReferenceName(name) == name \in characterReferenceNames

\* ------------------------------------------------------- Go primitives ---

\* s[i]
At(s, i) == s[i + 1]

\* s[lo:hi]
Slice(s, lo, hi) == SubSeq(s, lo + 1, hi)

Min(a, b) == IF a < b THEN a ELSE b

\* strings.IndexRune(s, c): index of the first c in s, or -1.
IndexRune(s, c) ==
  IF \E i \in 0..(Len(s) - 1) : At(s, i) = c
  THEN CHOOSE i \in 0..(Len(s) - 1) :
         /\ At(s, i) = c
         /\ \A h \in 0..(i - 1) : At(s, h) # c
  ELSE -1

\* Replace with n = 1: only the first old is replaced.
ReplaceFirstOnly(s, old, new) ==
  IF \E i \in 1..Len(s) : s[i] = old
  THEN LET i == CHOOSE x \in 1..Len(s) : s[x] = old /\ \A h \in 1..(x - 1) : s[h] # old
       IN  SubSeq(s, 1, i - 1) \o new \o SubSeq(s, i + 1, Len(s))
  ELSE s

\* strings.Replace(s, old, new, -1) and bytes.Replace(s, old, new, -1) for a
\* one-byte old.
RECURSIVE Replace(_, _, _)
Replace(s, old, new) ==
  IF s = <<>> THEN <<>>
  ELSE (IF Head(s) = old THEN new ELSE <<Head(s)>>) \o Replace(Tail(s), old, new)

\* strings.ContainsAny(s, chars) for chars in the ASCII range.
ContainsAny(s, chars) ==
  \E i \in 1..Len(s) : \E h \in 1..Len(chars) : s[i] = chars[h]

\* make([]byte, n)
MakeBytes(n) == [i \in 1..n |-> 0]

\* copy(b[dest:], s): the buffer after the copy and the number of bytes copied.
Copy(b, dest, s) ==
  LET n == Min(Len(b) - dest, Len(s))
  IN  [b |-> [i \in 1..Len(b) |-> IF i > dest /\ i <= dest + n THEN s[i - dest] ELSE b[i]],
       n |-> n]

\* ------------------------------------------------ NamedReferenceScanner --

\* isAlnum with the lower-case range starting after 'a'.
isAlnumAfterA(c) ==
  LET isLower  == c > 97 /\ c <= 122
      isUpper  == c >= 65 /\ c <= 90
      isNumber == c >= 48 /\ c <= 57
  IN  isLower \/ isUpper \/ isNumber

isAlnum(c) ==
  LET isLower  == c >= 97 /\ c <= 122
      isUpper  == c >= 65 /\ c <= 90
      isNumber == c >= 48 /\ c <= 57
  IN  isLower \/ isUpper \/ isNumber

\* The inner loop of Next over j: the index of the ';' that ends the
\* candidate that starts at i, or -1 when the loop breaks or runs out.
RECURSIVE innerLoop(_, _)
innerLoop(v, j) ==
  IF j >= Len(v) THEN -1
  ELSE IF At(v, j) = UnicodeSemicolon THEN j
  ELSE IF ~isAlnum(At(v, j)) THEN -1
  ELSE innerLoop(v, j + 1)

\* outerLoop without the test for a ';' right after the '&'.
RECURSIVE outerLoopKeepsEmptyName(_, _)
outerLoopKeepsEmptyName(v, i) ==
  IF i >= Len(v)
  THEN [name |-> <<>>, ampIndex |-> -1, LastIndex |-> Len(v)]
  ELSE IF At(v, i) = UnicodeAmpersand
       THEN LET j == innerLoop(v, i + 1)
            IN  IF j # -1
                THEN [name |-> Slice(v, i + 1, j), ampIndex |-> i, LastIndex |-> j]
                ELSE outerLoopKeepsEmptyName(v, i + 1)
       ELSE outerLoopKeepsEmptyName(v, i + 1)

\* outerLoop leaving LastIndex at the '&' of a match instead of at its ';'.
RECURSIVE outerLoopCursorAtAmpersand(_, _)
outerLoopCursorAtAmpersand(v, i) ==
  IF i >= Len(v)
  THEN [name |-> <<>>, ampIndex |-> -1, LastIndex |-> Len(v)]
  ELSE IF At(v, i) = UnicodeAmpersand
       THEN IF i + 1 < Len(v) /\ At(v, i + 1) = UnicodeSemicolon
            THEN outerLoopCursorAtAmpersand(v, i + 1)
            ELSE LET j == innerLoop(v, i + 1)
                 IN  IF j # -1
                     THEN [name |-> Slice(v, i + 1, j), ampIndex |-> i, LastIndex |-> i]
                     ELSE outerLoopCursorAtAmpersand(v, i + 1)
       ELSE outerLoopCursorAtAmpersand(v, i + 1)

\* outerLoop rewinding the cursor to the start when nothing is found.
RECURSIVE outerLoopRewinds(_, _)
outerLoopRewinds(v, i) ==
  IF i >= Len(v)
  THEN [name |-> <<>>, ampIndex |-> -1, LastIndex |-> -1]
  ELSE IF At(v, i) = UnicodeAmpersand
       THEN IF i + 1 < Len(v) /\ At(v, i + 1) = UnicodeSemicolon
            THEN outerLoopRewinds(v, i + 1)
            ELSE LET j == innerLoop(v, i + 1)
                 IN  IF j # -1
                     THEN [name |-> Slice(v, i + 1, j), ampIndex |-> i, LastIndex |-> j]
                     ELSE outerLoopRewinds(v, i + 1)
       ELSE outerLoopRewinds(v, i + 1)

\* Where the loop over j stops without a match: the index of the byte that
\* is neither alphanumeric nor ';', or len(v).
RECURSIVE innerLoopBreak(_, _)
innerLoopBreak(v, j) ==
  IF j >= Len(v) THEN Len(v)
  ELSE IF At(v, j) = UnicodeSemicolon \/ ~isAlnum(At(v, j)) THEN j
  ELSE innerLoopBreak(v, j + 1)

\* outerLoop going on behind the byte a candidate failed on.
RECURSIVE outerLoopSkipsFailingByte(_, _)
outerLoopSkipsFailingByte(v, i) ==
  IF i >= Len(v)
  THEN [name |-> <<>>, ampIndex |-> -1, LastIndex |-> Len(v)]
  ELSE IF At(v, i) = UnicodeAmpersand
       THEN IF i + 1 < Len(v) /\ At(v, i + 1) = UnicodeSemicolon
            THEN outerLoopSkipsFailingByte(v, i + 1)
            ELSE LET j == innerLoop(v, i + 1)
                 IN  IF j # -1
                     THEN [name |-> Slice(v, i + 1, j), ampIndex |-> i, LastIndex |-> j]
                     ELSE outerLoopSkipsFailingByte(v, innerLoopBreak(v, i + 1) + 1)
       ELSE outerLoopSkipsFailingByte(v, i + 1)

\* outerLoop leaving the cursor on the last byte when nothing is found.
RECURSIVE outerLoopStopsOnLastByte(_, _)
outerLoopStopsOnLastByte(v, i) ==
  IF i >= Len(v)
  THEN [name |-> <<>>, ampIndex |-> -1, LastIndex |-> Len(v) - 1]
  ELSE IF At(v, i) = UnicodeAmpersand
       THEN IF i + 1 < Len(v) /\ At(v, i + 1) = UnicodeSemicolon
            THEN outerLoopStopsOnLastByte(v, i + 1)
            ELSE LET j == innerLoop(v, i + 1)
                 IN  IF j # -1
                     THEN [name |-> Slice(v, i + 1, j), ampIndex |-> i, LastIndex |-> j]
                     ELSE outerLoopStopsOnLastByte(v, i + 1)
       ELSE outerLoopStopsOnLastByte(v, i + 1)

\* The outer loop of Next over i: what Next returns and where it leaves
\* LastIndex.
RECURSIVE outerLoop(_, _)
outerLoop(v, i) ==
  IF i >= Len(v)
  THEN [name |-> <<>>, ampIndex |-> -1, LastIndex |-> Len(v)]
  ELSE IF At(v, i) = UnicodeAmpersand
       THEN IF i + 1 < Len(v) /\ At(v, i + 1) = UnicodeSemicolon
            THEN outerLoop(v, i + 1)
            ELSE LET j == innerLoop(v, i + 1)
                 IN  IF j # -1
                     THEN [name |-> Slice(v, i + 1, j), ampIndex |-> i, LastIndex |-> j]
                     ELSE outerLoop(v, i + 1)
       ELSE outerLoop(v, i + 1)

\* Next returning a match without storing where it ended.
NextResultForgetsCursor(v, k) ==
  LET r == outerLoop(v, k + 1)
  IN  IF r.ampIndex # -1 THEN [r EXCEPT !.LastIndex = k] ELSE r

\* scanner.Next() on a scanner {v, k}.
NextResult(v, k) == outerLoop(v, k + 1)

\* What Reset stores in LastIndex.
ResetResult == -1

\* ----------------------------------------------------------- checker -----

\* hasAmbiguousLoop deciding on the first reference it meets.
hasAmbiguousLoopStopsAtFirst(v, k) ==
  LET r == NextResult(v, k)
  IN  IF r.ampIndex = -1 THEN FALSE
      ELSE ~IsCharacterReferenceName(r.name)

\* hasAmbiguousLoop answering true when the scanner runs out of references.
RECURSIVE hasAmbiguousLoopTrueAtEnd(_, _)
hasAmbiguousLoopTrueAtEnd(v, k) ==
  LET r == NextResult(v, k)
  IN  IF r.ampIndex = -1 THEN TRUE
      ELSE IF ~IsCharacterReferenceName(r.name) THEN TRUE
      ELSE hasAmbiguousLoopTrueAtEnd(v, r.LastIndex)

RECURSIVE hasAmbiguousLoop(_, _)
hasAmbiguousLoop(v, k) ==
  LET r == NextResult(v, k)
  IN  IF r.ampIndex = -1 THEN FALSE
      ELSE IF ~IsCharacterReferenceName(r.name) THEN TRUE
      ELSE hasAmbiguousLoop(v, r.LastIndex)

HasAmbiguousAmpersand(v) == hasAmbiguousLoop(v, -1)

IsValidAttributeValue(v) == ~HasAmbiguousAmpersand(v)

IsValidAttributeValueDoubleQuoted(v) ==
  IF IndexRune(v, UnicodeQuoteMark) > -1 THEN FALSE
  ELSE IsValidAttributeValue(v)

IsValidAttributeValueUnquoted(v) ==
  IF Len(v) = 0 THEN FALSE
  ELSE IF ContainsAny(v, SpaceCharacters) THEN FALSE
  ELSE IF ContainsAny(v, InvalidAttributeValueUnquotedCharacters) THEN FALSE
  ELSE IsValidAttributeValue(v)

IsValidAttributeValueSingleQuoted(v) ==
  IF IndexRune(v, UnicodeApostrophe) > -1 THEN FALSE
  ELSE IsValidAttributeValue(v)

\* ----------------------------------------------------------- escaper -----

\* A []byte that may be nil.
NilBuffer == [isNil |-> TRUE, bytes |-> <<>>]

Buffer(b) == [isNil |-> FALSE, bytes |-> b]

\* countLoop counting every reference, named or not.
RECURSIVE countLoopCountsAll(_, _, _)
countLoopCountsAll(v, k, count) ==
  LET r == NextResult(v, k)
  IN  IF r.ampIndex = -1 THEN count
      ELSE countLoopCountsAll(v, r.LastIndex, count + 1)

\* The counting loop of escapeAmbiguousAmpersandsBuffer.
RECURSIVE countLoop(_, _, _)
countLoop(v, k, count) ==
  LET r == NextResult(v, k)
  IN  IF r.ampIndex = -1 THEN count
      ELSE countLoop(v, r.LastIndex,
                     IF ~IsCharacterReferenceName(r.name) THEN count + 1 ELSE count)

\* One call of copy as the rewriting loop sees it: the length of the source
\* and the number of bytes copy returned.
CopyCall(s, c) == [asked |-> Len(s), n |-> c.n]

\* rewriteLoop with src left at the ampersand instead of after it.
RECURSIVE rewriteLoopKeepsAmpersand(_, _, _, _, _)
rewriteLoopKeepsAmpersand(v, k, b, dest, src) ==
  LET r == NextResult(v, k)
  IN  IF r.ampIndex = -1
      THEN LET s0 == Slice(v, src, Len(v))
               c0 == Copy(b, dest, s0)
           IN  [b |-> c0.b, copies |-> <<CopyCall(s0, c0)>>]
      ELSE IF ~IsCharacterReferenceName(r.name)
           THEN LET s1 == Slice(v, src, r.ampIndex)
                    c1 == Copy(b, dest, s1)
                    c2 == Copy(c1.b, dest + c1.n, htmlAmp)
                    rest == rewriteLoopKeepsAmpersand(v, r.LastIndex, c2.b,
                                                      dest + c1.n + c2.n, r.ampIndex)
                IN  [b |-> rest.b,
                     copies |-> <<CopyCall(s1, c1), CopyCall(htmlAmp, c2)>> \o rest.copies]
           ELSE rewriteLoopKeepsAmpersand(v, r.LastIndex, b, dest, src)

\* The rewriting loop of escapeAmbiguousAmpersandsBuffer: the buffer it leaves
\* and the calls of copy it made, in order.
RECURSIVE rewriteLoop(_, _, _, _, _)
rewriteLoop(v, k, b, dest, src) ==
  LET r == NextResult(v, k)
  IN  IF r.ampIndex = -1
      THEN LET s0 == Slice(v, src, Len(v))
               c0 == Copy(b, dest, s0)
           IN  [b |-> c0.b, copies |-> <<CopyCall(s0, c0)>>]
      ELSE IF ~IsCharacterReferenceName(r.name)
           THEN LET s1 == Slice(v, src, r.ampIndex)
                    c1 == Copy(b, dest, s1)
                    c2 == Copy(c1.b, dest + c1.n, htmlAmp)
                    rest == rewriteLoop(v, r.LastIndex, c2.b,
                                        dest + c1.n + c2.n, r.ampIndex + 1)
                IN  [b |-> rest.b,
                     copies |-> <<CopyCall(s1, c1), CopyCall(htmlAmp, c2)>> \o rest.copies]
           ELSE rewriteLoop(v, r.LastIndex, b, dest, src)

\* The two passes of escapeAmbiguousAmpersandsBuffer: count, finalLength, and
\* what the rewriting loop did to the buffer of that length.
escapeAmbiguousAmpersandsPasses(v) ==
  LET count == countLoop(v, -1, 0)
      finalLength == Len(v) - count + (count * Len(htmlAmp))
  IN  [count |-> count,
       finalLength |-> finalLength,
       rewrite |-> IF count = 0 THEN [b |-> <<>>, copies |-> <<>>]
                   ELSE rewriteLoop(v, ResetResult, MakeBytes(finalLength), 0, 0)]

escapeAmbiguousAmpersandsBuffer(v) ==
  LET p == escapeAmbiguousAmpersandsPasses(v)
  IN  IF p.count = 0 THEN NilBuffer
      ELSE Buffer(p.rewrite.b)

\* EscapeAmbiguousAmpersands with the early exit one byte too eager.
EscapeAmbiguousAmpersandsEagerExit(v) ==
  LET length == Len(v)
      ampIdx == IndexRune(v, unicodeAmpersand)
  IN  IF length < 3 THEN v
      ELSE IF ampIdx = -1 \/ ampIdx >= length - 3 THEN v
      ELSE LET b == escapeAmbiguousAmpersandsBuffer(v)
           IN  IF ~b.isNil THEN b.bytes ELSE v

EscapeAmbiguousAmpersands(v) ==
  LET length == Len(v)
      ampIdx == IndexRune(v, unicodeAmpersand)
  IN  IF length < 3 THEN v
      ELSE IF ampIdx = -1 \/ ampIdx >= length - 2 THEN v
      ELSE LET b == escapeAmbiguousAmpersandsBuffer(v)
           IN  IF ~b.isNil THEN b.bytes ELSE v

\* EscapeAttributeValueDoubleQuoted replacing the quotes in val even when the
\* ampersand pass produced a buffer.
EscapeAttributeValueDoubleQuotedQuotesVal(v) ==
  LET idxAmp  == IndexRune(v, unicodeAmpersand)
      idxQuo  == IndexRune(v, unicodeDoubleQuote)
      idxSemi == IndexRune(v, unicodeSemicolon)
      b == IF idxAmp # -1 /\ idxAmp < idxSemi
           THEN escapeAmbiguousAmpersandsBuffer(v)
           ELSE NilBuffer
  IN  IF idxAmp = -1 /\ idxQuo = -1 THEN v
      ELSE IF idxQuo # -1
           THEN Replace(v, unicodeDoubleQuote, htmlQuot)
           ELSE IF b.isNil THEN v ELSE b.bytes

EscapeAttributeValueDoubleQuoted(v) ==
  LET idxAmp  == IndexRune(v, unicodeAmpersand)
      idxQuo  == IndexRune(v, unicodeDoubleQuote)
      idxSemi == IndexRune(v, unicodeSemicolon)
      b == IF idxAmp # -1 /\ idxAmp < idxSemi
           THEN escapeAmbiguousAmpersandsBuffer(v)
           ELSE NilBuffer
  IN  IF idxAmp = -1 /\ idxQuo = -1 THEN v
      ELSE IF idxQuo # -1
           THEN IF b.isNil
                THEN Replace(v, unicodeDoubleQuote, htmlQuot)
                ELSE Replace(b.bytes, unicodeDoubleQuote, htmlQuot)
           ELSE IF b.isNil THEN v ELSE b.bytes

\* ------------------------------------------------------- CSS identifiers --

\* utf8.RuneError, what range yields for a byte that starts no encoding.
RuneError == 65533

\* One step of "for i, char := range val" at byte offset i: the code point
\* and the number of bytes it takes. One-byte and two-byte encodings are
\* decoded; any other byte yields RuneError and takes one byte.
DecodeRune(v, i) ==
  LET b0 == At(v, i)
  IN  IF b0 < 128 THEN [char |-> b0, size |-> 1]
      ELSE IF /\ b0 >= 194 /\ b0 <= 223 /\ i + 1 < Len(v)
              /\ At(v, i + 1) >= 128 /\ At(v, i + 1) <= 191
           THEN [char |-> (b0 - 192) * 64 + (At(v, i + 1) - 128), size |-> 2]
           ELSE [char |-> RuneError, size |-> 1]

\* var first, second rune; var wasSlash, inEscape bool; var hexCount int
cssZero == [first |-> 0, second |-> 0, wasSlash |-> FALSE, inEscape |-> FALSE,
            hexCount |-> 0]

\* startCheck testing the second character for '-' only.
startCheckHyphenOnly(st, i, char) ==
  IF i = 0
  THEN [reject |-> char >= 48 /\ char <= 57, st |-> [st EXCEPT !.first = char]]
  ELSE IF i = 1
       THEN [reject |-> st.first = 45 /\ char = 45,
             st |-> [st EXCEPT !.second = char]]
       ELSE [reject |-> FALSE, st |-> st]

\* The tests on the first and the second character.
startCheck(st, i, char) ==
  IF i = 0
  THEN [reject |-> char >= 48 /\ char <= 57, st |-> [st EXCEPT !.first = char]]
  ELSE IF i = 1
       THEN [reject |-> st.first = 45 /\ (char = 45 \/ (char >= 48 /\ char <= 57)),
             st |-> [st EXCEPT !.second = char]]
       ELSE [reject |-> FALSE, st |-> st]

\* escapeTooLong with the cap one digit early.
escapeTooLongAtSix(hexCount) == hexCount >= 6

\* if hexCount > 6
escapeTooLong(hexCount) == hexCount > 6

\* isEscapeSpace without the form feed.
isEscapeSpaceNoFormFeed(char) ==
  char = 32 \/ char = 9 \/ char = 10 \/ char = 13

\* char == ' ' || char == '\t' || char == '\n' || char == '\r' || char == '\f'
isEscapeSpace(char) ==
  char = 32 \/ char = 9 \/ char = 10 \/ char = 13 \/ char = 12

\* charStep with the lower-case branch leaving wasSlash as it is.
charStepLowerKeepsSlash(st, char) ==
  LET s == IF escapeTooLong(st.hexCount) THEN [st EXCEPT !.inEscape = FALSE] ELSE st
  IN  IF char >= 160
      THEN [continue |-> TRUE, st |-> [s EXCEPT !.inEscape = FALSE, !.wasSlash = FALSE]]
      ELSE IF char = 45 \/ char = 95
      THEN [continue |-> TRUE, st |-> [s EXCEPT !.inEscape = FALSE, !.wasSlash = FALSE]]
      ELSE IF char >= 97 /\ char <= 122
      THEN [continue |-> TRUE,
            st |-> IF char > 102
                   THEN [s EXCEPT !.inEscape = FALSE]
                   ELSE [s EXCEPT !.hexCount = @ + 1]]
      ELSE IF char >= 65 /\ char <= 90
      THEN [continue |-> TRUE,
            st |-> IF char > 70
                   THEN [s EXCEPT !.wasSlash = FALSE, !.inEscape = FALSE]
                   ELSE [s EXCEPT !.wasSlash = FALSE, !.hexCount = @ + 1]]
      ELSE IF char >= 48 /\ char <= 57
      THEN [continue |-> TRUE, st |-> [s EXCEPT !.wasSlash = FALSE, !.hexCount = @ + 1]]
      ELSE IF char = 92
      THEN [continue |-> TRUE,
            st |-> [s EXCEPT !.hexCount = 0, !.wasSlash = TRUE, !.inEscape = TRUE]]
      ELSE IF s.inEscape /\ isEscapeSpace(char)
      THEN [continue |-> TRUE, st |-> [s EXCEPT !.inEscape = FALSE, !.wasSlash = FALSE]]
      ELSE IF s.wasSlash
      THEN [continue |-> TRUE, st |-> [s EXCEPT !.wasSlash = FALSE, !.inEscape = FALSE]]
      ELSE [continue |-> FALSE, st |-> s]

\* The body of the range loop from the hexCount test on: continue, or
\* return false.
charStep(st, char) ==
  LET s == IF escapeTooLong(st.hexCount) THEN [st EXCEPT !.inEscape = FALSE] ELSE st
  IN  IF char >= 160
      THEN [continue |-> TRUE, st |-> [s EXCEPT !.inEscape = FALSE, !.wasSlash = FALSE]]
      ELSE IF char = 45 \/ char = 95
      THEN [continue |-> TRUE, st |-> [s EXCEPT !.inEscape = FALSE, !.wasSlash = FALSE]]
      ELSE IF char >= 97 /\ char <= 122
      THEN [continue |-> TRUE,
            st |-> IF char > 102
                   THEN [s EXCEPT !.wasSlash = FALSE, !.inEscape = FALSE]
                   ELSE [s EXCEPT !.wasSlash = FALSE, !.hexCount = @ + 1]]
      ELSE IF char >= 65 /\ char <= 90
      THEN [continue |-> TRUE,
            st |-> IF char > 70
                   THEN [s EXCEPT !.wasSlash = FALSE, !.inEscape = FALSE]
                   ELSE [s EXCEPT !.wasSlash = FALSE, !.hexCount = @ + 1]]
      ELSE IF char >= 48 /\ char <= 57
      THEN [continue |-> TRUE, st |-> [s EXCEPT !.wasSlash = FALSE, !.hexCount = @ + 1]]
      ELSE IF char = 92
      THEN [continue |-> TRUE,
            st |-> [s EXCEPT !.hexCount = 0, !.wasSlash = TRUE, !.inEscape = TRUE]]
      ELSE IF s.inEscape /\ isEscapeSpace(char)
      THEN [continue |-> TRUE, st |-> [s EXCEPT !.inEscape = FALSE, !.wasSlash = FALSE]]
      ELSE IF s.wasSlash
      THEN [continue |-> TRUE, st |-> [s EXCEPT !.wasSlash = FALSE, !.inEscape = FALSE]]
      ELSE [continue |-> FALSE, st |-> s]

\* for i, char := range val, from byte offset i on.
RECURSIVE rangeLoop(_, _, _)
rangeLoop(v, i, st) ==
  IF i >= Len(v) THEN TRUE
  ELSE LET d == DecodeRune(v, i)
           c == startCheck(st, i, d.char)
       IN  IF c.reject THEN FALSE
           ELSE LET r == charStep(c.st, d.char)
                IN  IF ~r.continue THEN FALSE
                    ELSE rangeLoop(v, i + d.size, r.st)

IsValidCss3Identifier(v) ==
  IF Len(v) = 0 THEN FALSE
  ELSE rangeLoop(v, 0, cssZero)

\* IsValidCss3IdValue without the test for the '#'.
IsValidCss3IdValueAnyFirstByte(v) ==
  IF Len(v) < 2 THEN FALSE
  ELSE IsValidCss3Identifier(Slice(v, 1, Len(v)))

IsValidCss3IdValue(v) ==
  IF Len(v) < 2 THEN FALSE
  ELSE At(v, 0) = 35 /\ IsValidCss3Identifier(Slice(v, 1, Len(v)))

\* ----------------------------------------------------------------- ids ---

\* The test of one character in the loop of IsValidHtml4IdValue.
isHtml4IdChar(cur) ==
  ~(/\ ~(cur >= 97 /\ cur <= 122)
    /\ ~(cur >= 65 /\ cur <= 90)
    /\ ~(cur >= 48 /\ cur <= 57)
    /\ cur # 58
    /\ cur # 95
    /\ cur # 45
    /\ cur # 46)

\* for _, cur := range val, from byte offset i on.
RECURSIVE html4Loop(_, _)
html4Loop(v, i) ==
  IF i >= Len(v) THEN TRUE
  ELSE LET d == DecodeRune(v, i)
       IN  IF ~isHtml4IdChar(d.char) THEN FALSE
           ELSE html4Loop(v, i + d.size)

\* IsValidHtml4IdValue testing the first byte only.
IsValidHtml4IdValueFirstByteOnly(v) ==
  LET length == Len(v)
  IN  IF length = 0 THEN FALSE
      ELSE LET first == At(v, 0)
               isLower == first >= 97 /\ first <= 122
               isUpper == first >= 65 /\ first <= 90
           IN  IF ~isLower /\ ~isUpper THEN FALSE
               ELSE TRUE

IsValidHtml4IdValue(v) ==
  LET length == Len(v)
  IN  IF length = 0 THEN FALSE
      ELSE LET first == At(v, 0)
               isLower == first >= 97 /\ first <= 122
               isUpper == first >= 65 /\ first <= 90
           IN  IF ~isLower /\ ~isUpper THEN FALSE
               ELSE html4Loop(v, 0)

\* ------------------------------------------------------------- state -----

VARIABLES
  Value,      \* scanner.Value
  LastIndex,  \* scanner.LastIndex
  name,       \* the name the last Next returned
  ampIndex,   \* the index the last Next returned
  last,       \* the last call on the scanner: "new", "Next" or "Reset"
  calls,      \* the results of the Next calls since the scanner was new or reset
  prevCalls,  \* the results of the Next calls of the pass before the last Reset
  resets,     \* number of Resets so far
  val,        \* the argument of the last escaper or checker call
  op,         \* the function last called, "none" before the first call
  from,       \* where val came from: "input" or the function that returned it
  ret,        \* the text the last call returned
  ok,         \* the verdict the last call returned
  depth,      \* number of calls chained so far
  Value2,     \* Value of a second scanner
  LastIndex2, \* LastIndex of the second scanner
  calls2,     \* the results of the second scanner's Next calls since it was new or reset
  resets2     \* number of Resets of the second scanner so far

scannerVars == <<Value, LastIndex, name, ampIndex, last, calls, prevCalls, resets>>

callVars == <<val, op, from, ret, ok, depth>>

secondVars == <<Value2, LastIndex2, calls2, resets2>>

vars == <<Value, LastIndex, name, ampIndex, last, calls, prevCalls, resets,
          val, op, from, ret, ok, depth, Value2, LastIndex2, calls2, resets2>>

\* ----------------------------------------------------------- scanner -----

\* No second scanner.
NoSecond ==
  /\ Value2 = <<>>
  /\ LastIndex2 = -1
  /\ calls2 = <<>>
  /\ resets2 = 0

NoCall ==
  /\ val = <<>>
  /\ op = "none"
  /\ from = "input"
  /\ ret = <<>>
  /\ ok = FALSE
  /\ depth = 0

\* NewNamedReferenceScanner(value)
Init ==
  /\ Value \in Texts
  /\ LastIndex = -1
  /\ name = <<>>
  /\ ampIndex = -1
  /\ last = "new"
  /\ calls = <<>>
  /\ prevCalls = <<>>
  /\ resets = 0
  /\ NoCall
  /\ NoSecond

\* &NamedReferenceScanner{value, k}
InitCursor ==
  /\ Value \in Texts
  /\ LastIndex \in (0 - 1)..Len(Value)
  /\ name = <<>>
  /\ ampIndex = -1
  /\ last = "new"
  /\ calls = <<>>
  /\ prevCalls = <<>>
  /\ resets = 0
  /\ NoCall
  /\ NoSecond

ScannerNext ==
  /\ Len(calls) < MaxCalls
  /\ LET r == NextResult(Value, LastIndex)
     IN  /\ name' = r.name
         /\ ampIndex' = r.ampIndex
         /\ LastIndex' = r.LastIndex
         /\ calls' = Append(calls, <<r.name, r.ampIndex>>)
  /\ last' = "Next"
  /\ UNCHANGED <<Value, prevCalls, resets>>
  /\ UNCHANGED callVars
  /\ UNCHANGED secondVars

\* Reset putting the cursor on the first byte instead of before it.
ResetSkipsFirstByte ==
  /\ resets < MaxResets
  /\ LastIndex' = 0
  /\ last' = "Reset"
  /\ prevCalls' = calls
  /\ calls' = <<>>
  /\ resets' = resets + 1
  /\ UNCHANGED <<Value, name, ampIndex>>
  /\ UNCHANGED callVars
  /\ UNCHANGED secondVars

Reset ==
  /\ resets < MaxResets
  /\ LastIndex' = ResetResult
  /\ last' = "Reset"
  /\ prevCalls' = calls
  /\ calls' = <<>>
  /\ resets' = resets + 1
  /\ UNCHANGED <<Value, name, ampIndex>>
  /\ UNCHANGED callVars
  /\ UNCHANGED secondVars

Next == ScannerNext \/ Reset

Spec == Init /\ [][Next]_vars

SpecCursor == InitCursor /\ [][Next]_vars

\* ------------------------------------------------------ two scanners -----

\* Two scanners made by NewNamedReferenceScanner from the same text.
InitTwo ==
  /\ Value \in TextsUpTo(MaxSharedPieces)
  /\ LastIndex = -1
  /\ name = <<>>
  /\ ampIndex = -1
  /\ last = "new"
  /\ calls = <<>>
  /\ prevCalls = <<>>
  /\ resets = 0
  /\ NoCall
  /\ Value2 = Value
  /\ LastIndex2 = -1
  /\ calls2 = <<>>
  /\ resets2 = 0

\* Next on the second scanner, with both scanners pointing at one cursor.
ScannerNext2SharingCursor ==
  /\ Len(calls2) < MaxCalls
  /\ LET r == NextResult(Value2, LastIndex)
     IN  /\ LastIndex' = r.LastIndex
         /\ LastIndex2' = r.LastIndex
         /\ calls2' = Append(calls2, <<r.name, r.ampIndex>>)
  /\ UNCHANGED <<Value2, resets2>>
  /\ UNCHANGED <<Value, name, ampIndex, last, calls, prevCalls, resets>>
  /\ UNCHANGED callVars

\* Next on the second scanner.
ScannerNext2 ==
  /\ Len(calls2) < MaxCalls
  /\ LET r == NextResult(Value2, LastIndex2)
     IN  /\ LastIndex2' = r.LastIndex
         /\ calls2' = Append(calls2, <<r.name, r.ampIndex>>)
  /\ UNCHANGED <<Value2, resets2>>
  /\ UNCHANGED scannerVars
  /\ UNCHANGED callVars

\* Reset on the second scanner.
Reset2 ==
  /\ resets2 < MaxResets
  /\ LastIndex2' = ResetResult
  /\ calls2' = <<>>
  /\ resets2' = resets2 + 1
  /\ UNCHANGED Value2
  /\ UNCHANGED scannerVars
  /\ UNCHANGED callVars

\* The calls of the two scanners in any order.
NextTwo == ScannerNext \/ Reset \/ ScannerNext2 \/ Reset2

SpecTwo == InitTwo /\ [][NextTwo]_vars

\* ------------------------------------------------------- drive loops -----

\* The last Next call returned ("", -1): the "if index == -1" of a drive loop
\* leaves the loop.
Exhausted == last = "Next" /\ ampIndex = -1

\* One turn of "for { name, index := scanner.Next() ... }" in
\* HasAmbiguousAmpersand and escapeAmbiguousAmpersandsBuffer. A text built
\* from MaxPieces pieces holds at most MaxPieces ';', so the cap on the
\* recorded calls is above what the loop can need.
DriveNext ==
  /\ ~Exhausted
  /\ Len(calls) <= MaxPieces + 1
  /\ LET r == NextResult(Value, LastIndex)
     IN  /\ name' = r.name
         /\ ampIndex' = r.ampIndex
         /\ LastIndex' = r.LastIndex
         /\ calls' = Append(calls, <<r.name, r.ampIndex>>)
  /\ last' = "Next"
  /\ UNCHANGED <<Value, prevCalls, resets>>
  /\ UNCHANGED callVars
  /\ UNCHANGED secondVars

\* scanner.Reset() between the counting loop and the rewriting loop: once,
\* when the counting loop has left.
DriveReset ==
  /\ Exhausted
  /\ resets = 0
  /\ Reset

NextDrive == DriveNext \/ DriveReset

\* The loop body always runs to its end: nothing blocks a turn of the loop.
SpecDrive == InitCursor /\ [][NextDrive]_vars /\ WF_vars(DriveNext)

\* ------------------------------------------------- escaper and checker ---

NoScanner ==
  /\ Value = <<>>
  /\ LastIndex = -1
  /\ name = <<>>
  /\ ampIndex = -1
  /\ last = "new"
  /\ calls = <<>>
  /\ prevCalls = <<>>
  /\ resets = 0
  /\ NoSecond

InitCalls ==
  /\ val \in Texts
  /\ op = "none"
  /\ from = "input"
  /\ ret = val
  /\ ok = FALSE
  /\ depth = 0
  /\ NoScanner

\* The argument of the next call: the input while nothing was called, later
\* the text the last call returned.
Chain ==
  /\ depth < MaxDepth
  /\ depth' = depth + 1
  /\ val' = ret
  /\ from' = IF op = "none" THEN "input" ELSE op

CallEscapeAmbiguousAmpersands ==
  /\ Chain
  /\ op' = "EscapeAmbiguousAmpersands"
  /\ ret' = EscapeAmbiguousAmpersands(ret)
  /\ UNCHANGED ok
  /\ UNCHANGED scannerVars
  /\ UNCHANGED secondVars

CallEscapeAttributeValueDoubleQuoted ==
  /\ Chain
  /\ op' = "EscapeAttributeValueDoubleQuoted"
  /\ ret' = EscapeAttributeValueDoubleQuoted(ret)
  /\ UNCHANGED ok
  /\ UNCHANGED scannerVars
  /\ UNCHANGED secondVars

CallHasAmbiguousAmpersand ==
  /\ op # "HasAmbiguousAmpersand"
  /\ op # "IsValidAttributeValueDoubleQuoted"
  /\ val' = ret
  /\ from' = IF op = "none" THEN "input" ELSE op
  /\ op' = "HasAmbiguousAmpersand"
  /\ ok' = HasAmbiguousAmpersand(ret)
  /\ UNCHANGED <<ret, depth>>
  /\ UNCHANGED scannerVars
  /\ UNCHANGED secondVars

CallIsValidAttributeValueDoubleQuoted ==
  /\ op # "HasAmbiguousAmpersand"
  /\ op # "IsValidAttributeValueDoubleQuoted"
  /\ val' = ret
  /\ from' = IF op = "none" THEN "input" ELSE op
  /\ op' = "IsValidAttributeValueDoubleQuoted"
  /\ ok' = IsValidAttributeValueDoubleQuoted(ret)
  /\ UNCHANGED <<ret, depth>>
  /\ UNCHANGED scannerVars
  /\ UNCHANGED secondVars

NextCalls ==
  \/ CallEscapeAmbiguousAmpersands
  \/ CallEscapeAttributeValueDoubleQuoted
  \/ CallHasAmbiguousAmpersand
  \/ CallIsValidAttributeValueDoubleQuoted

SpecCalls == InitCalls /\ [][NextCalls]_vars

\* ------------------------------------------------------ CSS id checks ----

InitCss ==
  /\ val \in CssTexts
  /\ op = "none"
  /\ from = "input"
  /\ ret = val
  /\ ok = FALSE
  /\ depth = 0
  /\ NoScanner

\* ret keeps the input text; val is the argument of the last call.
CallIsValidCss3Identifier ==
  /\ val' = ret
  /\ op' = "IsValidCss3Identifier"
  /\ ok' = IsValidCss3Identifier(ret)
  /\ UNCHANGED <<from, ret, depth>>
  /\ UNCHANGED scannerVars
  /\ UNCHANGED secondVars

\* Called with the input text or with '#' and the input text.
CallIsValidCss3IdValue ==
  /\ \E hash \in {<<>>, <<35>>} :
       /\ val' = hash \o ret
       /\ ok' = IsValidCss3IdValue(hash \o ret)
  /\ op' = "IsValidCss3IdValue"
  /\ UNCHANGED <<from, ret, depth>>
  /\ UNCHANGED scannerVars
  /\ UNCHANGED secondVars

NextCss ==
  \/ CallIsValidCss3Identifier
  \/ CallIsValidCss3IdValue

SpecCss == InitCss /\ [][NextCss]_vars

\* ------------------------------------- id and attribute value checks -----

InitIds ==
  /\ val \in IdTexts
  /\ op = "none"
  /\ from = "input"
  /\ ret = val
  /\ ok = FALSE
  /\ depth = 0
  /\ NoScanner

CallIsValidHtml4IdValue ==
  /\ val' = ret
  /\ op' = "IsValidHtml4IdValue"
  /\ ok' = IsValidHtml4IdValue(ret)
  /\ UNCHANGED <<from, ret, depth>>
  /\ UNCHANGED scannerVars
  /\ UNCHANGED secondVars

CallIsValidAttributeValueUnquoted ==
  /\ val' = ret
  /\ op' = "IsValidAttributeValueUnquoted"
  /\ ok' = IsValidAttributeValueUnquoted(ret)
  /\ UNCHANGED <<from, ret, depth>>
  /\ UNCHANGED scannerVars
  /\ UNCHANGED secondVars

CallIsValidAttributeValueSingleQuoted ==
  /\ val' = ret
  /\ op' = "IsValidAttributeValueSingleQuoted"
  /\ ok' = IsValidAttributeValueSingleQuoted(ret)
  /\ UNCHANGED <<from, ret, depth>>
  /\ UNCHANGED scannerVars
  /\ UNCHANGED secondVars

NextIds ==
  \/ CallIsValidHtml4IdValue
  \/ CallIsValidAttributeValueUnquoted
  \/ CallIsValidAttributeValueSingleQuoted
  \/ CallIsValidAttributeValueDoubleQuoted

SpecIds == InitIds /\ [][NextIds]_vars

\* ------------------------------------------------ what the claims say ----

\* An ASCII letter or digit.
AsciiAlnum(c) == c \in (48..57) \cup (65..90) \cup (97..122)

\* v has '&' at i, ';' at j, and one or more letters or digits between them.
IsReferenceAt(v, i, j) ==
  /\ 0 <= i
  /\ i + 1 < j
  /\ j < Len(v)
  /\ At(v, i) = 38
  /\ At(v, j) = 59
  /\ \A h \in (i + 1)..(j - 1) : AsciiAlnum(At(v, h))

\* The indices at which v has a reference-shaped substring.
ReferenceStarts(v) ==
  {i \in 0..(Len(v) - 1) : \E j \in (i + 2)..(Len(v) - 1) : IsReferenceAt(v, i, j)}

ReferenceEnd(v, i) == CHOOSE j \in (i + 2)..(Len(v) - 1) : IsReferenceAt(v, i, j)

ReferenceName(v, i) == Slice(v, i + 1, ReferenceEnd(v, i))

\* The indices of the ambiguous ampersands of v: reference-shaped, with a name
\* that is not in the table.
AmbiguousStarts(v) ==
  {i \in ReferenceStarts(v) : ReferenceName(v, i) \notin characterReferenceNames}

Least(S) == CHOOSE i \in S : \A h \in S : i <= h

\* The results of a scan of v from index i on: every reference that starts at
\* i or later, from left to right.
RECURSIVE ReferencesFrom(_, _)
ReferencesFrom(v, i) ==
  IF i >= Len(v) THEN <<>>
  ELSE IF \E j \in (i + 2)..(Len(v) - 1) : IsReferenceAt(v, i, j)
       THEN <<(<<ReferenceName(v, i), i>>)>> \o ReferencesFrom(v, i + 1)
       ELSE ReferencesFrom(v, i + 1)

\* What n Next calls from a fresh cursor return, given the references refs
\* of the text: the references in order, then ("", -1) for every further call.
ExpectedCalls(refs, n) ==
  [m \in 1..n |-> IF m <= Len(refs) THEN refs[m] ELSE <<<<>>, -1>>]

\* v from index i on, with the '&' at every index in S replaced by "&amp;".
RECURSIVE EscapedAt(_, _, _)
EscapedAt(v, S, i) ==
  IF i >= Len(v) THEN <<>>
  ELSE (IF i \in S THEN <<38, 97, 109, 112, 59>> ELSE <<At(v, i)>>)
       \o EscapedAt(v, S, i + 1)

\* v with the '&' of every ambiguous ampersand replaced by "&amp;".
AmpersandsEscaped(v) == EscapedAt(v, AmbiguousStarts(v), 0)

\* v with every '"' replaced by "&#34;".
RECURSIVE QuotesEscaped(_)
QuotesEscaped(v) ==
  IF Len(v) = 0 THEN <<>>
  ELSE QuotesEscaped(SubSeq(v, 1, Len(v) - 1))
       \o (IF v[Len(v)] = 34 THEN <<38, 35, 51, 52, 59>> ELSE <<v[Len(v)]>>)

Contains(v, c) == \E i \in 1..Len(v) : v[i] = c

\* v has a '&', and its first '&' comes before its first ';'.
FirstAmpersandBeforeFirstSemicolon(v) ==
  \E i \in 1..Len(v) :
    /\ v[i] = 38
    /\ \A h \in 1..(i - 1) : v[h] # 38
    /\ \E j \in (i + 1)..Len(v) :
         /\ v[j] = 59
         /\ \A h \in 1..(j - 1) : v[h] # 59

\* ------------------------------------------------------------ claims -----

\* C1: Next on a scanner with Value v and LastIndex k returns (name, a) where
\* a is the smallest index greater than k at which v has '&', one or more
\* ASCII letters or digits, and ';', and name is exactly that run, never
\* empty; when there is no such index it returns ("", -1).
C1_NextReturnsNextReference ==
  [][ScannerNext =>
       LET later == {i \in ReferenceStarts(Value) : i > LastIndex}
       IN  IF later = {}
           THEN name' = <<>> /\ ampIndex' = -1
           ELSE /\ ampIndex' = Least(later)
                /\ name' = ReferenceName(Value, Least(later))
                /\ name' # <<>>]_vars

\* A scanner built with its cursor past a first reference has returned a
\* later one, which starts after bytes that are not part of it.
C1_Witness ==
  /\ last = "Next"
  /\ Len(calls) = 1
  /\ ampIndex >= 4
  /\ Cardinality(ReferenceStarts(Value)) >= 2
  /\ ampIndex # Least(ReferenceStarts(Value))

\* C2: checker.IsValidAttributeValueDoubleQuoted accepts every text that
\* EscapeAttributeValueDoubleQuoted returns.
C2_EscapedAttributeValueIsValid ==
  (op = "IsValidAttributeValueDoubleQuoted" /\ from = "EscapeAttributeValueDoubleQuoted")
    => ok = TRUE

\* C3: EscapeAmbiguousAmpersands(t) is t with the leading '&' of every
\* ambiguous ampersand replaced by "&amp;" and every other byte copied in
\* order.
C3_EscapesExactlyTheAmbiguousAmpersands ==
  op = "EscapeAmbiguousAmpersands" => ret = AmpersandsEscaped(val)

\* Two ambiguous ampersands and a valid reference in one argument.
C3_Witness ==
  /\ op = "EscapeAmbiguousAmpersands"
  /\ Cardinality(AmbiguousStarts(val)) >= 2
  /\ ReferenceStarts(val) # AmbiguousStarts(val)
  /\ Len(ret) = Len(val) + 4 * Cardinality(AmbiguousStarts(val))

\* C4: EscapeAmbiguousAmpersands applied to its own result returns that
\* result unchanged.
C4_EscapeAmbiguousAmpersandsIdempotent ==
  (op = "EscapeAmbiguousAmpersands" /\ from = "EscapeAmbiguousAmpersands")
    => ret = val

\* The second call's argument holds an 'm', which only a first call that
\* escaped something can have put there.
C4_Witness ==
  /\ op = "EscapeAmbiguousAmpersands"
  /\ from = "EscapeAmbiguousAmpersands"
  /\ Contains(val, 109)
  /\ ret = val

\* C5: HasAmbiguousAmpersand(t) is true exactly when t has a '&', one or more
\* ASCII letters or digits and a ';' whose name is not in the table.
C5_DetectsExactlyTheAmbiguousAmpersands ==
  op = "HasAmbiguousAmpersand" => (ok <=> AmbiguousStarts(val) # {})

\* An ambiguous ampersand found behind a valid reference.
C5_Witness ==
  /\ op = "HasAmbiguousAmpersand"
  /\ ok
  /\ \E i \in ReferenceStarts(val) \ AmbiguousStarts(val) :
       \A h \in AmbiguousStarts(val) : i < h

\* C6: HasAmbiguousAmpersand is false of every text that
\* EscapeAmbiguousAmpersands returns.
C6_EscapedTextHasNoAmbiguousAmpersand ==
  (op = "HasAmbiguousAmpersand" /\ from = "EscapeAmbiguousAmpersands")
    => ok = FALSE

\* The text checked holds an "&amp;" the escaper put there.
C6_Witness ==
  /\ op = "HasAmbiguousAmpersand"
  /\ from = "EscapeAmbiguousAmpersands"
  /\ Contains(val, 109)
  /\ ~ok

\* C7: after Next returns a match LastIndex is the index of the match's ';';
\* after Next returns no match LastIndex is len(Value), and every later Next
\* before a Reset returns ("", -1) too.
C7_CursorAfterNext ==
  /\ last = "Next" =>
       IF ampIndex # -1
       THEN /\ LastIndex = ampIndex + Len(name) + 1
            /\ LastIndex < Len(Value)
            /\ At(Value, LastIndex) = 59
       ELSE LastIndex = Len(Value)
  /\ \A n \in 1..Len(calls) :
       calls[n][2] = -1 => \A m \in n..Len(calls) : calls[m] = <<<<>>, -1>>

\* A match, then no match, then no match again.
C7_Witness ==
  /\ last = "Next"
  /\ Len(calls) = 3
  /\ calls[1][2] # -1
  /\ calls[2][2] = -1
  /\ calls[3][2] = -1

\* C8: from a fresh cursor, repeated Next calls return every reference of the
\* text once, from left to right, and then ("", -1); after Reset the same
\* sequence is returned again.
C8_ScanReturnsEveryReferenceInOrder ==
  LET refs == ReferencesFrom(Value, 0)
  IN  /\ calls = ExpectedCalls(refs, Len(calls))
      /\ prevCalls = ExpectedCalls(refs, Len(prevCalls))

\* Two references with different names, then exhaustion, before and after a
\* Reset.
C8_Witness ==
  /\ resets >= 1
  /\ Len(prevCalls) = 3
  /\ calls = prevCalls
  /\ calls[1][2] = 0
  /\ calls[2][2] > 0
  /\ calls[1][1] # calls[2][1]
  /\ calls[3][2] = -1

\* C9: a Next call never lowers LastIndex; only Reset lowers it, and to -1.
C9_CursorMonotonic ==
  [][/\ ScannerNext => LastIndex' >= LastIndex
     /\ LastIndex' < LastIndex => (last' = "Reset" /\ LastIndex' = -1)]_vars

\* A Reset after two matches has moved the cursor back to -1.
C9_Witness ==
  /\ last = "Reset"
  /\ Len(prevCalls) >= 2
  /\ prevCalls[2][2] > 0
  /\ LastIndex = -1

IsNamedReference(v) ==
  /\ Len(v) >= 3
  /\ v[1] = 38
  /\ v[Len(v)] = 59
  /\ \A i \in 2..(Len(v) - 1) : AsciiAlnum(v[i])

Count(v, c) == Cardinality({i \in 1..Len(v) : v[i] = c})

\* C11: EscapeAttributeValueDoubleQuoted(t) holds no literal '"': every '"'
\* of t is replaced by exactly "&#34;", whether the ampersand pass produced a
\* buffer or not.
C11_EveryQuoteReplaced ==
  op = "EscapeAttributeValueDoubleQuoted" =>
    /\ ~Contains(ret, 34)
    /\ \/ ret = QuotesEscaped(val)
       \/ ret = QuotesEscaped(AmpersandsEscaped(val))

\* Two quotes behind an ambiguous ampersand that the ampersand pass escaped.
C11_Witness ==
  /\ op = "EscapeAttributeValueDoubleQuoted"
  /\ Count(val, 34) = 2
  /\ AmbiguousStarts(val) # {}
  /\ Contains(ret, 109)
  /\ Count(ret, 35) = 2
  /\ Len(ret) = Len(val) + 12

\* C12: escaping the ambiguous ampersands and then replacing every '"' by
\* "&#34;" gives the same text as replacing the quotes first and escaping the
\* ambiguous ampersands after.
C12_PassesCommute ==
  op = "EscapeAmbiguousAmpersands" =>
    Replace(ret, unicodeDoubleQuote, htmlQuot)
      = EscapeAmbiguousAmpersands(Replace(val, unicodeDoubleQuote, htmlQuot))

\* A text in which both passes have something to replace.
C12_Witness ==
  /\ op = "EscapeAmbiguousAmpersands"
  /\ from = "input"
  /\ Contains(val, 34)
  /\ ret # val
  /\ Replace(ret, unicodeDoubleQuote, htmlQuot) # ret

\* C13: for a non-empty ASCII-alphanumeric name n, HasAmbiguousAmpersand of
\* "&" + n + ";" is true exactly when n is not in the table, and for such an n
\* EscapeAmbiguousAmpersands returns "&amp;" + n + ";".
C13_SingleReference ==
  IsNamedReference(val) =>
    LET n == SubSeq(val, 2, Len(val) - 1)
    IN  /\ op = "HasAmbiguousAmpersand" => (ok <=> n \notin characterReferenceNames)
        /\ (op = "EscapeAmbiguousAmpersands" /\ n \notin characterReferenceNames)
             => ret = <<38, 97, 109, 112, 59>> \o n \o <<59>>

\* A name that is not in the table has been escaped.
C13_Witness ==
  /\ op = "EscapeAmbiguousAmpersands"
  /\ from = "input"
  /\ IsNamedReference(val)
  /\ SubSeq(val, 2, Len(val) - 1) \notin characterReferenceNames
  /\ Len(ret) = Len(val) + 4

\* C14: for a text without '&', the empty text included,
\* HasAmbiguousAmpersand is false and EscapeAmbiguousAmpersands returns the
\* text unchanged.
C14_NoAmpersandNothingToDo ==
  ~Contains(val, 38) =>
    /\ op = "HasAmbiguousAmpersand" => ~ok
    /\ op = "EscapeAmbiguousAmpersands" => ret = val

\* A text without '&' that has letters and a ';' has been checked.
C14_Witness ==
  /\ op = "HasAmbiguousAmpersand"
  /\ ~Contains(val, 38)
  /\ Contains(val, 59)
  /\ Contains(val, 97)
  /\ Len(val) >= 3
  /\ ~ok

RECURSIVE SumN(_)
SumN(copies) == IF copies = <<>> THEN 0 ELSE Head(copies).n + SumN(Tail(copies))

\* C20: in escapeAmbiguousAmpersandsBuffer the counting pass and the
\* rewriting pass see the same matches: the buffer of length
\* len(val) + 4 * (number of ambiguous ampersands) is filled exactly. Every
\* copy copies all of its source, the copies add up to the length of the
\* buffer, no byte keeps the zero it was made with, and the result is 4 bytes
\* longer than the input for each ambiguous ampersand.
C20_BufferFilledExactly ==
  op \in {"EscapeAmbiguousAmpersands", "EscapeAttributeValueDoubleQuoted"} =>
    LET p == escapeAmbiguousAmpersandsPasses(val)
        S == AmbiguousStarts(val)
        b == escapeAmbiguousAmpersandsBuffer(val)
    IN  /\ p.count = Cardinality(S)
        /\ b.isNil <=> S = {}
        /\ S # {} =>
             /\ Len(p.rewrite.copies) = 2 * p.count + 1
             /\ \A h \in 1..Len(p.rewrite.copies) :
                  p.rewrite.copies[h].n = p.rewrite.copies[h].asked
             /\ SumN(p.rewrite.copies) = Len(b.bytes)
             /\ \A i \in 1..Len(b.bytes) : b.bytes[i] # 0
             /\ Len(b.bytes) = Len(val) + 4 * Cardinality(S)
             /\ op = "EscapeAmbiguousAmpersands" => ret = b.bytes

\* A text with a named reference between two ambiguous ampersands has been
\* rewritten into a buffer 8 bytes longer.
C20_Witness ==
  /\ op = "EscapeAmbiguousAmpersands"
  /\ Cardinality(AmbiguousStarts(val)) = 2
  /\ Cardinality(ReferenceStarts(val)) = 3
  /\ Len(ret) = Len(val) + 8

\* ------------------------------------- what the CSS identifier claims say --

\* The characters of v from byte offset i on: code point, byte offset, width.
RECURSIVE Chars(_, _)
Chars(v, i) ==
  IF i >= Len(v) THEN <<>>
  ELSE LET d == DecodeRune(v, i)
       IN  <<[char |-> d.char, at |-> i, size |-> d.size]>> \o Chars(v, i + d.size)

IsDigit(c) == c \in 48..57

IsHexDigit(c) == c \in (48..57) \cup (97..102) \cup (65..70)

IsLetter(c) == c \in (97..122) \cup (65..90)

\* space, tab, line feed, carriage return, form feed
IsWhitespace(c) == c \in {32, 9, 10, 13, 12}

\* [a-zA-Z0-9_-]
IsPlainIdentifierChar(c) == IsLetter(c) \/ IsDigit(c) \/ c = 95 \/ c = 45

\* Character p of cs directly follows a backslash.
AfterBackslash(cs, p) == p > 1 /\ cs[p - 1].char = 92

\* Character p of cs directly follows a run of 1 to 6 hex digits that
\* directly follows a backslash.
AfterHexEscape(cs, p) ==
  \E k \in 1..6 :
    /\ p - k - 1 >= 1
    /\ cs[p - k - 1].char = 92
    /\ \A h \in (p - k)..(p - 1) : IsHexDigit(cs[h].char)

\* The left-to-right state machine of transition rules 1-10, from character p
\* of cs on: TRUE when no character is rejected.
RECURSIVE RulesAccept(_, _, _, _)
RulesAccept(cs, p, escape, counter) ==
  IF p > Len(cs) THEN TRUE
  ELSE LET c == cs[p].char
           esc == IF escape /\ counter > 6 THEN FALSE ELSE escape
       IN  IF p = 1 /\ IsDigit(c) THEN FALSE
           ELSE IF p = 2 /\ cs[1].char = 45 /\ (c = 45 \/ IsDigit(c)) THEN FALSE
           ELSE IF c >= 160 THEN RulesAccept(cs, p + 1, FALSE, counter)
           ELSE IF c = 45 \/ c = 95 THEN RulesAccept(cs, p + 1, FALSE, counter)
           ELSE IF IsLetter(c) \/ IsDigit(c)
                THEN IF IsHexDigit(c)
                     THEN RulesAccept(cs, p + 1, esc, IF esc THEN counter + 1 ELSE counter)
                     ELSE RulesAccept(cs, p + 1, FALSE, counter)
           ELSE IF c = 92 THEN RulesAccept(cs, p + 1, TRUE, 0)
           ELSE IF esc /\ IsWhitespace(c) THEN RulesAccept(cs, p + 1, FALSE, counter)
           ELSE IF AfterBackslash(cs, p) THEN RulesAccept(cs, p + 1, FALSE, counter)
           ELSE FALSE

\* IsValidCss3Identifier rejects none of the first n bytes of v.
Survives(v, n) == n = 0 \/ IsValidCss3Identifier(Slice(v, 0, n))

C16_StartOfIdentifier ==
  op = "IsValidCss3Identifier" =>
    LET cs == Chars(val, 0)
    IN  /\ cs = <<>> => ~ok
        /\ (Len(cs) >= 1 /\ IsDigit(cs[1].char)) => ~ok
        /\ (Len(cs) >= 2 /\ cs[1].char = 45 /\ (cs[2].char = 45 \/ IsDigit(cs[2].char)))
             => ~ok
        /\ (Len(cs) >= 2 /\ cs[1].char = 92 /\ \A p \in 2..Len(cs) : IsDigit(cs[p].char))
             => ok

\* A text starting with '-' and a digit, with more behind, has been rejected.
C16_Witness ==
  /\ op = "IsValidCss3Identifier"
  /\ Len(val) >= 3
  /\ val[1] = 45
  /\ IsDigit(val[2])
  /\ ~ok

\* Any single character directly after a backslash is accepted.
AcceptsAfterBackslash(v, cs) ==
  \A p \in 1..Len(cs) :
    (AfterBackslash(cs, p) /\ Survives(v, cs[p].at))
      => Survives(v, cs[p].at + cs[p].size)

C19_HashThenIdentifier ==
  op = "IsValidCss3IdValue" =>
    LET cs == Chars(val, 0)
    IN  ok <=> /\ Len(cs) >= 2
               /\ cs[1].char = 35
               /\ IsValidCss3Identifier(SubSeq(val, cs[1].size + 1, Len(val)))

\* '#' and an identifier with an escape in it, accepted.
C19_Witness ==
  /\ op = "IsValidCss3IdValue"
  /\ ok
  /\ val[1] = 35
  /\ Contains(val, 92)
  /\ Len(val) >= 4

\* ------------------------------------------------ scanner, later claims --

\* Where the cursor of a scanner created with LastIndex = -1 can stand.
CursorInRange ==
  /\ -1 <= LastIndex
  /\ LastIndex <= Len(Value)
  /\ \/ LastIndex = -1
     \/ LastIndex = Len(Value)
     \/ At(Value, LastIndex) = 59

\* C26: in every state reachable from a scanner created with LastIndex = -1
\* by Next and Reset calls, -1 <= LastIndex <= len(Value), LastIndex is -1,
\* len(Value) or the index of a ';' in Value, and no call changes Value.
C26_CursorInvariant == [] CursorInRange /\ [][Value' = Value]_vars

\* After a Reset, Next has left the cursor on a ';' inside the text.
C26_Witness ==
  /\ last = "Next"
  /\ resets = 1
  /\ LastIndex >= 0
  /\ LastIndex < Len(Value) - 1
  /\ At(Value, LastIndex) = 59

\* The number of ';' of v at an index above k.
SemicolonsAfter(v, k) == Cardinality({i \in 0..(Len(v) - 1) : i > k /\ At(v, i) = 59})

\* C22: repeated Next calls reach exhaustion after finitely many calls, from
\* any cursor position: every drive loop reaches its exit (the loops are
\* finitely many, so the exit is reached again and again exactly when none
\* of them runs for ever), each match moves LastIndex strictly forward onto a
\* ';', and the calls of one loop are at most one per remaining ';' plus one.
\* The ';' counted are those behind the '&' of the loop's first match, all of
\* which remained at its start.
C22_DriveLoopsEnd ==
  /\ []<>Exhausted
  /\ [][(DriveNext /\ ampIndex' # -1) =>
          /\ LastIndex' > LastIndex
          /\ At(Value, LastIndex') = 59
          /\ SemicolonsAfter(Value, LastIndex') < SemicolonsAfter(Value, LastIndex)]_vars
  /\ [](calls # <<>> =>
          Len(calls) <= (IF calls[1][2] = -1 THEN 0
                         ELSE SemicolonsAfter(Value, calls[1][2])) + 1)

\* A loop started in the middle of a text has left after two matches, and
\* the loop run after the Reset has left after three.
C22_Witness ==
  /\ Exhausted
  /\ resets = 1
  /\ Len(prevCalls) = 3
  /\ Len(calls) = 4

\* The linear variant of the scan: after a candidate fails on a byte that is
\* not alphanumeric, the search for '&' goes on at that byte.
RECURSIVE LinearScan(_, _)
LinearScan(v, i) ==
  IF i >= Len(v)
  THEN [name |-> <<>>, ampIndex |-> -1, LastIndex |-> Len(v)]
  ELSE IF v[i + 1] = 38
       THEN IF i + 1 < Len(v) /\ v[i + 2] = 59
            THEN LinearScan(v, i + 1)
            ELSE LET stops == {j \in (i + 1)..(Len(v) - 1) : ~AsciiAlnum(v[j + 1])}
                     j == IF stops = {} THEN Len(v) ELSE Least(stops)
                 IN  IF j < Len(v) /\ v[j + 1] = 59
                     THEN [name |-> SubSeq(v, i + 2, j), ampIndex |-> i, LastIndex |-> j]
                     ELSE LinearScan(v, j)
       ELSE LinearScan(v, i + 1)

\* C23: the linear variant of Next, which after a candidate fails on a
\* non-alphanumeric character resumes the search for '&' at that character,
\* returns the same name and index and leaves the same LastIndex as the
\* implemented scan, for every text and every starting cursor.
C23_LinearScanEquivalent ==
  [][ScannerNext =>
       LET r == LinearScan(Value, LastIndex + 1)
       IN  /\ name' = r.name
           /\ ampIndex' = r.ampIndex
           /\ LastIndex' = r.LastIndex]_vars

\* After a Reset, the match found starts at the '&' on which the candidate
\* at the start of the text failed.
C23_Witness ==
  /\ last = "Next"
  /\ resets = 1
  /\ Len(calls) = 1
  /\ ampIndex = 2
  /\ At(Value, 0) = 38
  /\ At(Value, 1) = 97
  /\ At(Value, 2) = 38

\* The results of the first n Next calls of a scanner that runs alone over v,
\* from cursor k.
RECURSIVE RunAlone(_, _, _)
RunAlone(v, k, n) ==
  IF n = 0 THEN <<>>
  ELSE LET r == NextResult(v, k)
       IN  <<<<r.name, r.ampIndex>>>> \o RunAlone(v, r.LastIndex, n - 1)

\* C25: two scanners over the same text with separate cursors do not
\* interfere. Under every interleaving of their Next and Reset calls each
\* returns the sequence of results it returns when it runs alone, and a call
\* changes nothing of the other scanner and no Value.
C25_ScannersDoNotInterfere ==
  /\ [](/\ calls = RunAlone(Value, -1, Len(calls))
        /\ prevCalls = RunAlone(Value, -1, Len(prevCalls))
        /\ calls2 = RunAlone(Value2, -1, Len(calls2)))
  /\ [][/\ (ScannerNext \/ Reset) => UNCHANGED <<Value, Value2, LastIndex2, calls2>>
        /\ (ScannerNext2 \/ Reset2) => UNCHANGED <<Value, Value2, LastIndex, calls>>]_vars

\* The first scanner has been through the text and was reset; the second is
\* behind its first match and the text has more to find.
C25_Witness ==
  /\ resets = 1
  /\ Len(prevCalls) = 3
  /\ calls = <<>>
  /\ LastIndex = -1
  /\ resets2 = 0
  /\ Len(calls2) = 1
  /\ calls2[1][2] # -1
  /\ LastIndex2 < Len(Value2) - 1

\* ------------------------------------------------ escaper, later claims --

\* C27: EscapeAttributeValueDoubleQuoted is idempotent: applied to its own
\* output it returns that output unchanged.
C27_EscapeAttributeValueDoubleQuotedIdempotent ==
  (op = "EscapeAttributeValueDoubleQuoted" /\ from = "EscapeAttributeValueDoubleQuoted")
    => ret = val

\* ------------------------------------------ CSS identifiers, later claims --

\* v is a backslash, 1 to 6 hex digits, CR, LF and then one or more
\* characters of [a-zA-Z0-9_-].
IsHexEscapeCrLfText(v) ==
  \E k \in 1..6 :
    /\ Len(v) >= k + 4
    /\ v[1] = 92
    /\ \A h \in 2..(k + 1) : IsHexDigit(v[h])
    /\ v[k + 2] = 13
    /\ v[k + 3] = 10
    /\ \A h \in (k + 4)..Len(v) : IsPlainIdentifierChar(v[h])

\* C24: after a hex escape a CR LF pair is one whitespace terminator:
\* IsValidCss3Identifier accepts a backslash, 1 to 6 hex digits, CR, LF and
\* then further identifier characters.
C24_CrLfEndsHexEscape ==
  (op = "IsValidCss3Identifier" /\ IsHexEscapeCrLfText(val)) => ok

\* ------------------------------------------------------ ids, claims ------

\* C21: every value accepted by IsValidHtml4IdValue is also accepted by
\* IsValidAttributeValueUnquoted, IsValidAttributeValueSingleQuoted and
\* IsValidAttributeValueDoubleQuoted.
C21_Html4IdIsValidAttributeValue ==
  /\ (op = "IsValidHtml4IdValue" /\ ok) =>
       /\ IsValidAttributeValueUnquoted(val)
       /\ IsValidAttributeValueSingleQuoted(val)
       /\ IsValidAttributeValueDoubleQuoted(val)
  /\ (/\ op \in {"IsValidAttributeValueUnquoted", "IsValidAttributeValueSingleQuoted",
                 "IsValidAttributeValueDoubleQuoted"}
      /\ IsValidHtml4IdValue(val)) => ok

\* An id of a letter, a colon and a digit has been accepted as an unquoted
\* attribute value.
C21_Witness ==
  /\ op = "IsValidAttributeValueUnquoted"
  /\ ok
  /\ IsValidHtml4IdValue(val)
  /\ Len(val) = 3
  /\ val[2] = 58
  /\ val[3] = 50

=============================================================================
